---- MODULE Spec2Model ----
(***************************************************************************)
(* glab-setup-git-identity: the library (src/index.js, in its two          *)
(* variants: the command-stream one and the node:child_process one) and    *)
(* the CLI (cli.js), as a state machine over the git configuration store   *)
(* and the glab authentication state.                                      *)
(*                                                                         *)
(* Text is a sequence of characters (one-element strings), so that trim,   *)
(* split and concatenation are computed and not assumed.  Every external   *)
(* command is one step; its outcome is "ok" (the command ran and did what  *)
(* git/glab do in the current store), "fail" (it exited non-zero without   *)
(* changing anything), "throw" (the command runner rejected) or "killed"   *)
(* (a signal ended the child before it did anything: no exit code).        *)
(***************************************************************************)
EXTENDS Integers, Sequences, FiniteSets, TLC

\* ------------------------------------------------------------------ bounds
MaxCalls == 2          \* library calls made one after the other by a caller

\* -------------------------------------------------------------------- text
SP == " "
NL == "\n"
WS == {SP, NL}

RECURSIVE TrimLeft(_)
TrimLeft(s) ==
    IF s = <<>> THEN s
    ELSE IF Head(s) \in WS THEN TrimLeft(Tail(s)) ELSE s

RECURSIVE TrimRight(_)
TrimRight(s) ==
    IF s = <<>> THEN s
    ELSE IF s[Len(s)] \in WS THEN TrimRight(SubSeq(s, 1, Len(s) - 1)) ELSE s

\* String.prototype.trim
Trim(s) == TrimRight(TrimLeft(s))

\* s.split('\n')[0]
RECURSIVE FirstLine(_)
FirstLine(s) ==
    IF s = <<>> THEN s
    ELSE IF Head(s) = NL THEN <<>>
    ELSE <<Head(s)>> \o FirstLine(Tail(s))

\* JavaScript truthiness of a string
Truthy(s) == s # <<>>

\* ------------------------------------------------------------ the variants
Impls == {"stream", "spawn"}

\* What one external command can do.  The command-stream runner may reject
\* (the code wraps several of its calls in try/catch); execCommand and
\* execInteractiveCommand resolve on 'error' and on 'close' of a child that
\* spawn() handed back, and 'close' reports a child ended by a signal with a
\* null exit code.
Outcomes(i) ==
    IF i = "stream" THEN {"ok", "fail", "throw"} ELSE {"ok", "fail", "killed"}

\* stdout as the caller sees it: execCommand trims it, command-stream does not
Capture(i, raw) == IF i = "spawn" THEN Trim(raw) ELSE raw

\* ------------------------------------------------- git config, as git does
Scopes == {"global", "local"}
Keys == {"user.name", "user.email", "helper"}

\* git config <scope> [--get] <key>: the last value and exit 0, or exit 1
GitGet(entries) ==
    IF entries = <<>> THEN [code |-> 1, stdout |-> <<>>]
    ELSE [code |-> 0, stdout |-> entries[Len(entries)] \o <<NL>>]

\* git config <scope> <key> <value>: creates or replaces a single value;
\* refuses (exit 5) to overwrite a multi-valued key
GitSet(entries, v) ==
    IF Len(entries) > 1 THEN [code |-> 5, entries |-> entries]
    ELSE [code |-> 0, entries |-> <<v>>]

\* git config <scope> --add <key> <value>: appends
GitAdd(entries, v) == [code |-> 0, entries |-> Append(entries, v)]

\* ------------------------------------------------------- command execution
\* The result of one external command: `normal` is what the command does
\* when it runs; a failing run exits 1 with nothing on stdout.
\* The 'close' event of a child: its exit code, or none after a signal.
Exited(code) == [signal |-> FALSE, code |-> code]
Signalled == [signal |-> TRUE, code |-> 0]

\* exitCode || 0
ExitCodeOrZero(close) == IF close.signal THEN 0 ELSE close.code

Run(out, normal) ==
    CASE out = "throw"  -> [threw |-> TRUE, killed |-> FALSE, code |-> 1,
                            stdout |-> <<>>]
      [] out = "fail"   -> [threw |-> FALSE, killed |-> FALSE,
                            code |-> ExitCodeOrZero(Exited(1)), stdout |-> <<>>]
      [] out = "killed" -> [threw |-> FALSE, killed |-> TRUE,
                            code |-> ExitCodeOrZero(Signalled), stdout |-> <<>>]
      [] OTHER          -> [threw |-> FALSE, killed |-> FALSE,
                            code |-> normal.code, stdout |-> normal.stdout]

\* how a command went, for the record of commands: it exited zero, a signal
\* ended it, or it exited non-zero (or the runner rejected)
Went(res) ==
    IF res.killed THEN "killed"
    ELSE IF ~res.threw /\ res.code = 0 THEN "ok" ELSE "fail"

\* ------------------------------------------------------------- the values
OldName == <<"o">>
OldEmail == <<"o", "@">>
OtherHelper == <<"x">>
Blank == <<SP>>

\* what `which glab` can print
WhichOutputs ==
    { [code |-> 0, stdout |-> <<"g", NL>>],
      [code |-> 0, stdout |-> <<"g", NL, "h", NL>>],
      [code |-> 0, stdout |-> <<>>],
      [code |-> 1, stdout |-> <<>>] }

\* the credential.https://<hostname>.helper entries a user may start with
InitHelpers ==
    { <<>>, << <<>> >>, <<Blank>>, <<OtherHelper>>, <<OtherHelper, OtherHelper>>,
      << <<>>, <<"!", "g", SP, "auth git-credential">> >> }

InitNames == { <<>>, <<OldName>> }
InitEmails == { <<>>, <<OldEmail>> }

\* a field of the user record: absent, or a string
Missing == [has |-> FALSE, v |-> <<>>]
Field(v) == [has |-> TRUE, v |-> v]
UserName == <<"a">>
UserEmail == <<"a", "@">>

\* the keys and the values a caller gives setGitConfig and getGitConfig
ConfigKeys == {"user.name", "user.email"}
Padded == <<SP, "a">>
ConfigValues == {UserName, Padded}

\* stdout of `glab api user`: the JSON of the user record, and what it may
\* print instead (an HTML error page, with or without whitespace around it)
JsonText == <<"{", "}", NL>>
BadOutputs == { <<"<">>, <<SP, "<", NL>> }

\* the user records of the accounts
Accounts ==
    { [username |-> Field(UserName), email |-> Field(UserEmail)],
      [username |-> Missing,         email |-> Field(UserEmail)],
      [username |-> Field(<<>>),     email |-> Field(UserEmail)],
      [username |-> Field(UserName), email |-> Missing],
      [username |-> Field(UserName), email |-> Field(<<>>)] }

\* what one fetch of the user record met: the record, whether glab printed
\* it as JSON, and the stdout the caller received
NoFetch == [username |-> Missing, email |-> Missing, valid |-> TRUE,
            stdout |-> <<>>]
Fetched(acc, valid, stdout) ==
    [username |-> acc.username, email |-> acc.email, valid |-> valid,
     stdout |-> stdout]

\* a return value of a library function
NoVal == [kind |-> "none", bool |-> FALSE, text |-> <<>>, msg |-> <<>>,
          username |-> <<>>, email |-> <<>>, uNull |-> TRUE, eNull |-> TRUE]
BoolVal(b) == [NoVal EXCEPT !.kind = "bool", !.bool = b]
TextVal(t) == [NoVal EXCEPT !.kind = "text", !.text = t]
NullVal == [NoVal EXCEPT !.kind = "null"]
VoidVal == [NoVal EXCEPT !.kind = "void"]
Raised == [NoVal EXCEPT !.kind = "raise"]
RaisedWith(m) == [Raised EXCEPT !.msg = m]
InfoVal(u, e) == [NoVal EXCEPT !.kind = "info", !.username = u, !.email = e,
                               !.uNull = FALSE, !.eNull = FALSE]
\* { username, email } of verifyGitIdentity: each a string or null
WithUsername(val, g) == [val EXCEPT !.kind = "identity", !.username = g.value,
                                    !.uNull = g.isNull]
WithEmail(val, g) == [val EXCEPT !.kind = "identity", !.email = g.value,
                                 !.eNull = g.isNull]

\* the options of an operation; a token that is not given is the empty string
NoArgs == [force |-> FALSE, dryRun |-> FALSE, scope |-> "global", verify |-> FALSE,
           global |-> FALSE, local |-> FALSE,
           token |-> "", jobToken |-> "", stdin |-> FALSE,
           key |-> "user.name", value |-> <<>>]

\* the tokens a caller may give
Tokens == {"", "T"}
JobTokens == {"", "J"}

\* a child of runGlabAuthLogin: the argv after `glab`, how its stdin is set
\* up, and the text written to it
NoChild == [argv |-> <<>>, stdin |-> "none", written |-> <<>>]

\* what the caller keeps of a return value: an error without its message
Outcome(val) == [val EXCEPT !.msg = <<>>]

\* a finished library call, as the next call remembers it: its name, and
\* for the calls that a second call is compared with, its options and result
NoCall == [op |-> "none", args |-> NoArgs, ret |-> NoVal]
Compared == {"runGlabAuthSetupGit", "setGitConfig"}
Remembered(op, a, r) ==
    IF op \in Compared THEN [op |-> op, args |-> a, ret |-> Outcome(r)]
    ELSE [NoCall EXCEPT !.op = op]

\* the user.name / user.email entries a scope may start with
InitIdentities ==
    { [name |-> n, email |-> e] : n \in InitNames, e \in InitEmails }
NoIdentity == [name |-> <<>>, email |-> <<>>]
InitLocal == { [name |-> <<OldName>>, email |-> <<>>] }

\* what a which/where lookup did: how it went, its exit code and what it printed
NoLookup == [out |-> "none", code |-> 0, stdout |-> <<>>]

\* the child of execCommand / execInteractiveCommand and its promise
NoProc == [kind |-> "none", fate |-> "none", events |-> <<>>, state |-> "none",
           exitCode |-> 0, stderr |-> <<>>]

\* two setupGitIdentity runs over one store: where each stands, its dryRun
\* option, the account its fetch met and how the fetch commands went, the
\* fetched { username, email }, what it returned and its git config writes
RunIds == {1, 2}
NoRun == [pc |-> "none", dryRun |-> FALSE,
          acc |-> [username |-> Missing, email |-> Missing], fetch |-> <<>>,
          info |-> NoVal, ret |-> NoVal, log |-> <<>>]
NoRuns == [r \in RunIds |-> NoRun]

\* a second account, and the accounts the two runs may meet
OtherName == <<"b">>
OtherEmail == <<"b", "@">>
TwoAccounts ==
    { [username |-> Field(UserName), email |-> Field(UserEmail)],
      [username |-> Field(OtherName), email |-> Field(OtherEmail)] }

VARIABLES
    impl,        \* which variant of src/index.js is loaded
    config,      \* the git configuration store: scope -> key -> list of values
    glabAuthed,  \* glab's own authentication storage holds a valid login
    account,     \* what the last fetch of the user record met
    pc,          \* where the running operation stands
    handler,     \* who called runGlabAuthSetupGit: "lib", "already", "notauth"
    top,         \* the running top-level operation: "none", a library call, "cli"
    args,        \* the options of the running operation
    glabPath,    \* runGlabAuthSetupGit: the resolved glab path
    userInfo,    \* setupGitIdentity: the fetched { username, email }
    identity,    \* verifyGitIdentity: the values read so far
    ensured,     \* ensureAuthenticated: "unset", "true", "false", its result
    ret,         \* what the last finished library call returned
    exitCode,    \* the CLI process exit code, -1 while running
    log,         \* the external commands of the running operation, in order
    snap,        \* the store when the running operation started
    prev,        \* the library call made before the running one
    calls,       \* how many operations the caller has started
    child,       \* the last `glab auth login` child: its argv and its stdin
    lookup,      \* getGlabPath: what the which/where lookup did and printed
    proc,        \* execCommand / execInteractiveCommand: the child and the promise
    runs         \* two setupGitIdentity runs in flight over the same store

vars == <<impl, config, glabAuthed, account, pc, handler, top, args, glabPath, userInfo,
          identity, ensured, ret, exitCode, log, snap, prev, calls, child,
          lookup, proc, runs>>

Helpers(cfg) == cfg["global"]["helper"]

Init ==
    /\ impl \in Impls
    /\ glabAuthed \in BOOLEAN
    /\ \E h \in InitHelpers, g \in InitIdentities, l \in InitLocal :
        /\ h = <<>> \/ g = NoIdentity
        /\ config = [s \in Scopes |->
                        IF s = "global"
                        THEN [k \in Keys |-> CASE k = "user.name" -> g.name
                                               [] k = "user.email" -> g.email
                                               [] OTHER -> h]
                        ELSE [k \in Keys |-> CASE k = "user.name" -> l.name
                                               [] k = "user.email" -> l.email
                                               [] OTHER -> <<>>]]
    /\ account = NoFetch
    /\ pc = "idle"
    /\ handler = "lib"
    /\ top = "none"
    /\ args = NoArgs
    /\ glabPath = <<>>
    /\ userInfo = NoVal
    /\ identity = NoVal
    /\ ensured = "unset"
    /\ ret = NoVal
    /\ exitCode = -1
    /\ log = <<>>
    /\ snap = config
    /\ prev = NoCall
    /\ calls = 0
    /\ child = NoChild
    /\ lookup = NoLookup
    /\ proc = NoProc
    /\ runs = NoRuns

\* one more command in the record of the running operation
Logged(cmd, res) == Append(log, [cmd |-> cmd, went |-> Went(res)])


WithEntries(cfg, scope, key, entries) ==
    [cfg EXCEPT ![scope] = [@ EXCEPT ![key] = entries]]

\* a git config write command: its result, and the store after it
GitWrite(out, scope, key, w) ==
    [res |-> Run(out, [code |-> w.code, stdout |-> <<>>]),
     cfg |-> IF out = "ok" THEN WithEntries(config, scope, key, w.entries)
             ELSE config]

\* a command whose stdout is captured, as the caller sees it
RunCaptured(out, normal) ==
    Run(out, [code |-> normal.code, stdout |-> Capture(impl, normal.stdout)])

\* a git config read command as the caller sees it
GitRead(out, scope, key) == RunCaptured(out, GitGet(config[scope][key]))

\* ------------------------------------------------------ the CLI's handlers
\* handleAlreadyAuthenticated: the value returned after the helper setup
HandleAlreadyAuthenticated(setupGitSuccess) == TRUE

\* handleNotAuthenticated: the value returned after a successful login and
\* the helper setup
HandleNotAuthenticated_SetupResult(setupGitSuccess) == setupGitSuccess

HandleNotAuthenticated(setupGitSuccess) == TRUE

\* ------------------------------------------------- runGlabAuthSetupGit
\* getGlabPath: raises 'glab CLI not found' or returns the first line
GetGlabPathResult_ExitOnly(res) ==
    IF res.threw \/ res.code # 0
    THEN [raised |-> TRUE, path |-> <<>>]
    ELSE [raised |-> FALSE, path |-> Trim(FirstLine(res.stdout))]

GetGlabPathResult(res) ==
    IF res.threw \/ res.code # 0 \/ ~Truthy(res.stdout)
    THEN [raised |-> TRUE, path |-> <<>>]
    ELSE [raised |-> FALSE, path |-> Trim(FirstLine(res.stdout))]

\* `!${glabPath} auth git-credential`
CredentialHelper(path) == <<"!">> \o path \o <<SP, "auth git-credential">>

\* the early return: a helper is there and force is off
AlreadyConfigured_Never(res, force) == FALSE

AlreadyConfigured_Inverted(res, force) ==
    ~res.threw /\ res.code = 0 /\ Truthy(res.stdout) /\ force

AlreadyConfigured(res, force) ==
    ~res.threw /\ res.code = 0 /\ Truthy(res.stdout) /\ ~force

\* the value returned by the early return
AlreadyConfiguredResult_Failure == FALSE

AlreadyConfiguredResult == TRUE

\* the value returned after the final --add
AddSucceeded_Unchecked(res) == TRUE

AddSucceeded(res) == ~res.threw /\ res.code = 0

\* runGlabAuthSetupGit returns b: to the library caller, or into the CLI's
\* handler, ensureAuthenticated and main
SetupGitReturns(b) ==
    IF handler = "lib"
    THEN /\ pc' = "idle"
         /\ ret' = BoolVal(b)
         /\ UNCHANGED <<ensured, exitCode>>
    ELSE LET e == IF handler = "already" THEN HandleAlreadyAuthenticated(b)
                  ELSE HandleNotAuthenticated(b)
         IN /\ ret' = BoolVal(b)
            /\ ensured' = IF e THEN "true" ELSE "false"
            /\ IF e THEN pc' = "si_fetch" /\ exitCode' = exitCode
                    ELSE pc' = "exited" /\ exitCode' = 1


SetupGit_GetGlabPath ==
    /\ pc = "sg_which"
    /\ \E out \in Outcomes(impl), w \in WhichOutputs :
         LET res == RunCaptured(out, w)
             r == GetGlabPathResult(res)
             lg == Append(log, [cmd |-> "which",
                                went |-> IF r.raised THEN "fail" ELSE "ok"])
         IN /\ log' = lg
            /\ IF r.raised
               THEN glabPath' = glabPath /\ SetupGitReturns(FALSE)
               ELSE /\ glabPath' = r.path
                    /\ pc' = "sg_get"
                    /\ UNCHANGED <<ret, ensured, exitCode>>
    /\ UNCHANGED <<lookup, proc, runs, child, impl, config, glabAuthed, account, handler, top, args, userInfo, identity,
                   snap, prev, calls>>

SetupGit_GetExisting ==
    /\ pc = "sg_get"
    /\ \E out \in Outcomes(impl) :
         LET res == GitRead(out, "global", "helper")
             lg == Logged("helper.get", res)
         IN /\ log' = lg
            /\ IF AlreadyConfigured(res, args.force)
               THEN SetupGitReturns(AlreadyConfiguredResult)
               ELSE /\ pc' = "sg_clear"
                    /\ UNCHANGED <<ret, ensured, exitCode>>
    /\ UNCHANGED <<lookup, proc, runs, child, impl, config, glabAuthed, account, handler, top, args, glabPath, userInfo,
                   identity, snap, prev, calls>>

SetupGit_Clear ==
    /\ pc = "sg_clear"
    /\ \E out \in Outcomes(impl) :
         LET w == GitWrite(out, "global", "helper", GitSet(Helpers(config), <<>>))
         IN /\ log' = Logged("helper.set", w.res)
            /\ config' = w.cfg
    /\ pc' = "sg_add"
    /\ UNCHANGED <<lookup, proc, runs, child, impl, glabAuthed, account, handler, top, args, glabPath, userInfo,
                   identity, ensured, ret, exitCode, snap, prev, calls>>

SetupGit_Add ==
    /\ pc = "sg_add"
    /\ \E out \in Outcomes(impl) :
         LET w == GitWrite(out, "global", "helper",
                           GitAdd(Helpers(config), CredentialHelper(glabPath)))
             lg == Logged("helper.add", w.res)
         IN /\ log' = lg
            /\ config' = w.cfg
            /\ SetupGitReturns(AddSucceeded(w.res))
    /\ UNCHANGED <<lookup, proc, runs, child, impl, glabAuthed, account, handler, top, args, glabPath, userInfo,
                   identity, snap, prev, calls>>

\* ------------------------------------------------------- the library caller
Starts(op, a, at) ==
    /\ pc = "idle"
    /\ calls < MaxCalls
    /\ calls' = calls + 1
    /\ prev' = IF top = "none" THEN NoCall ELSE Remembered(top, args, ret)
    /\ top' = op
    /\ args' = a
    /\ pc' = at
    /\ log' = <<>>
    /\ snap' = config
    /\ glabPath' = <<>>
    /\ userInfo' = NoVal
    /\ identity' = NoVal
    /\ ensured' = "unset"
    /\ ret' = NoVal
    /\ account' = NoFetch
    /\ child' = NoChild
    /\ lookup' = NoLookup
    /\ proc' = NoProc
    /\ runs' = NoRuns
    /\ UNCHANGED <<impl, config, glabAuthed, exitCode>>

CallRunGlabAuthSetupGit ==
    /\ \E force \in BOOLEAN :
         Starts("runGlabAuthSetupGit", [NoArgs EXCEPT !.force = force], "sg_which")
    /\ handler' = "lib"

\* ------------------------- getGitLabUsername, getGitLabEmail, getGitLabUserInfo
\* what `glab api user` does: it prints the user record as JSON, or text that
\* is not JSON; it exits non-zero when glab holds no login
ApiUser(acc, valid, raw) ==
    [code |-> IF glabAuthed THEN 0 ELSE 1,
     stdout |-> IF ~glabAuthed THEN <<>> ELSE IF valid THEN JsonText ELSE raw,
     valid |-> valid, username |-> acc.username, email |-> acc.email]

\* what `glab api user --jq .<field>` prints for a field: its text; for an
\* absent field either nothing or the word null, as the glab build has it
JqText(f, nullText) == IF f.has THEN f.v ELSE nullText
JqNullTexts == { <<>>, <<"null">> }

ApiUserJq(f, nullText) ==
    [code |-> IF glabAuthed THEN 0 ELSE 1,
     stdout |-> IF glabAuthed THEN JqText(f, nullText) \o <<NL>> ELSE <<>>]

\* !value
Falsy(f) == ~f.has \/ f.v = <<>>

\* the messages of the errors
FailedToGet(what) == <<"Failed to get GitLab ", what, ": ">>
NoUsernameFound == <<"No username found in GitLab user data.">>
NoEmailFound == <<"No email found on GitLab account.">>
Rejected == <<"rejected">>

\* `Failed to parse GitLab user data: ${parseError.message}. Raw output:
\* ${result.stdout}`
ParseErrorMessage_NoRaw(stdout) ==
    <<"Failed to parse GitLab user data: ", "SyntaxError">>

ParseErrorMessage(stdout) ==
    <<"Failed to parse GitLab user data: ", "SyntaxError", ". Raw output: ">>
        \o stdout

\* the command-stream variant, up to JSON.parse: the error it throws, or
\* NoVal when userData is there
FetchUserData(res, api, what) ==
    IF res.threw THEN RaisedWith(Rejected)
    ELSE IF res.code # 0 THEN RaisedWith(FailedToGet(what))
    ELSE IF ~api.valid THEN RaisedWith(ParseErrorMessage(res.stdout))
    ELSE NoVal

\* getGitLabUsername of the command-stream variant
GetGitLabUsernameStream(res, api) ==
    LET d == FetchUserData(res, api, "username")
    IN IF d.kind = "raise" THEN d
       ELSE IF Falsy(api.username) THEN RaisedWith(NoUsernameFound)
       ELSE TextVal(api.username.v)

\* getGitLabEmail of the command-stream variant
GetGitLabEmailStream(res, api) ==
    LET d == FetchUserData(res, api, "email")
    IN IF d.kind = "raise" THEN d
       ELSE IF Falsy(api.email) THEN RaisedWith(NoEmailFound)
       ELSE TextVal(api.email.v)

\* getGitLabUserInfo of the command-stream variant: one fetch, JSON.parse,
\* both fields checked
GetGitLabUserInfoStream(res, api) ==
    LET d == FetchUserData(res, api, "user info")
    IN IF d.kind = "raise" THEN d
       ELSE IF Falsy(api.username) THEN RaisedWith(NoUsernameFound)
       ELSE IF Falsy(api.email) THEN RaisedWith(NoEmailFound)
       ELSE InfoVal(api.username.v, api.email.v)

\* getGitLabUsername of the spawn variant: the stdout of --jq .username
GetGitLabUsernameSpawn(res) ==
    IF res.code # 0 THEN RaisedWith(FailedToGet("username"))
    ELSE TextVal(res.stdout)

\* getGitLabEmail of the spawn variant: the stdout of --jq .email, which
\* must not be empty
GetGitLabEmailSpawn(res) ==
    IF res.code # 0 THEN RaisedWith(FailedToGet("email"))
    ELSE IF ~Truthy(res.stdout) THEN RaisedWith(NoEmailFound)
    ELSE TextVal(res.stdout)

\* getGitLabUserInfo of the spawn variant: Promise.all of the two
GetGitLabUserInfoSpawn(resU, resE) ==
    LET u == GetGitLabUsernameSpawn(resU)
        e == GetGitLabEmailSpawn(resE)
    IN IF u.kind = "raise" THEN u
       ELSE IF e.kind = "raise" THEN e
       ELSE InfoVal(u.text, e.text)

\* the three as library calls
FetchOps == {"getGitLabUsername", "getGitLabEmail", "getGitLabUserInfo"}

GetGitLab_Fetch ==
    /\ pc = "gl_fetch"
    /\ \E outU \in Outcomes(impl), outE \in Outcomes(impl), acc \in Accounts,
          valid \in BOOLEAN, raw \in BadOutputs, nullText \in JqNullTexts :
         /\ impl = "stream" => outE = outU /\ nullText = <<>>
         /\ impl = "spawn" => valid
         /\ valid => raw = <<"<">>
         /\ LET api == ApiUser(acc, valid, raw)
                res == Run(outU, api)
                resU == RunCaptured(outU, ApiUserJq(acc.username, nullText))
                resE == RunCaptured(outE, ApiUserJq(acc.email, nullText))
                logU == Logged("api.username", resU)
                logE == [cmd |-> "api.email", went |-> Went(resE)]
            IN /\ account' = Fetched(acc, valid, res.stdout)
               /\ log' = IF impl = "stream" THEN Logged("api.user", res)
                         ELSE CASE top = "getGitLabUsername" -> logU
                                [] top = "getGitLabEmail" -> <<logE>>
                                [] OTHER -> Append(logU, logE)
               /\ ret' = IF impl = "stream"
                         THEN CASE top = "getGitLabUsername" ->
                                      GetGitLabUsernameStream(res, api)
                                [] top = "getGitLabEmail" ->
                                      GetGitLabEmailStream(res, api)
                                [] OTHER -> GetGitLabUserInfoStream(res, api)
                         ELSE CASE top = "getGitLabUsername" ->
                                      GetGitLabUsernameSpawn(resU)
                                [] top = "getGitLabEmail" ->
                                      GetGitLabEmailSpawn(resE)
                                [] OTHER -> GetGitLabUserInfoSpawn(resU, resE)
    /\ pc' = "idle"
    /\ UNCHANGED <<lookup, proc, runs, child, impl, config, glabAuthed, handler, top, args, glabPath,
                   userInfo, identity, ensured, exitCode, snap, prev, calls>>

CallGetGitLab ==
    /\ \E op \in FetchOps : Starts(op, NoArgs, "gl_fetch")
    /\ handler' = "lib"

\* ------------------------------------------------ setGitConfig, getGitConfig
\* scope === 'local' ? '--local' : '--global'
ScopeFlag_AlwaysGlobal(scope) == "global"

ScopeFlag(scope) == IF scope = "local" THEN "local" ELSE "global"

\* setGitConfig raises when the command did not exit zero
SetGitConfigRaises_ExitIgnored(res) == res.threw

SetGitConfigRaises(res) == res.threw \/ res.code # 0

\* getGitConfig: null on a non-zero exit, else the trimmed stdout; the
\* command-stream call is not guarded, so a rejection propagates
GetGitConfigResult(res) ==
    IF res.threw THEN [raised |-> TRUE, isNull |-> TRUE, value |-> <<>>]
    ELSE IF res.code # 0 THEN [raised |-> FALSE, isNull |-> TRUE, value |-> <<>>]
    ELSE [raised |-> FALSE, isNull |-> FALSE, value |-> Trim(res.stdout)]

\* the names of the two commands in the record of commands
SetCmd(key) == IF key = "user.name" THEN "user.name.set" ELSE "user.email.set"
GetCmd(key) == IF key = "user.name" THEN "user.name.get" ELSE "user.email.get"

FailedToSet == <<"Failed to set git config ">>

\* the value getGitConfig hands back, or the error that passes through it
GetGitConfigReturns(res) ==
    LET g == GetGitConfigResult(res)
    IN IF g.raised THEN RaisedWith(Rejected)
       ELSE IF g.isNull THEN NullVal
       ELSE TextVal(g.value)

\* setGitConfig as a library call
SetGitConfig_Run ==
    /\ pc = "sc_run"
    /\ \E out \in Outcomes(impl) :
         LET sc == ScopeFlag(args.scope)
             w == GitWrite(out, sc, args.key,
                           GitSet(config[sc][args.key], args.value))
         IN /\ log' = Logged(SetCmd(args.key), w.res)
            /\ config' = w.cfg
            /\ ret' = IF SetGitConfigRaises(w.res) THEN RaisedWith(FailedToSet)
                      ELSE VoidVal
    /\ pc' = "idle"
    /\ UNCHANGED <<lookup, proc, runs, child, impl, glabAuthed, account, handler, top, args, glabPath,
                   userInfo, identity, ensured, exitCode, snap, prev, calls>>

CallSetGitConfig ==
    /\ \E key \in ConfigKeys, value \in ConfigValues, scope \in Scopes :
         Starts("setGitConfig",
                [NoArgs EXCEPT !.key = key, !.value = value, !.scope = scope],
                "sc_run")
    /\ handler' = "lib"

\* getGitConfig as a library call
GetGitConfig_Run ==
    /\ pc = "gc_run"
    /\ \E out \in Outcomes(impl) :
         LET res == GitRead(out, ScopeFlag(args.scope), args.key)
         IN /\ log' = Logged(GetCmd(args.key), res)
            /\ ret' = GetGitConfigReturns(res)
    /\ pc' = "idle"
    /\ UNCHANGED <<lookup, proc, runs, child, impl, config, glabAuthed, account, handler, top, args,
                   glabPath, userInfo, identity, ensured, exitCode, snap, prev,
                   calls>>

CallGetGitConfig ==
    /\ \E key \in ConfigKeys, scope \in Scopes :
         Starts("getGitConfig", [NoArgs EXCEPT !.key = key, !.scope = scope],
                "gc_run")
    /\ handler' = "lib"

\* --------------------------------------------------------------------- main
\* process.exit(0) after displayResults and after runVerify;
\* process.exit(1) in the catch block and after a failed authentication
ExitCode_AlwaysZero(raised) == 0

ExitCode(raised) == IF raised THEN 1 ELSE 0

\* ---------------------------------------------------------- setupGitIdentity
\* if (dryRun) { ...; return { username, email }; }
DryRunReturns_Never(a) == FALSE

DryRunReturns(a) == a.dryRun

\* setupGitIdentity returns r (or raises): to the library caller, or to main
SetupIdentityReturns(r) ==
    /\ ret' = r
    /\ IF top = "cli"
       THEN pc' = "exited" /\ exitCode' = ExitCode(r.kind = "raise")
       ELSE pc' = "idle" /\ exitCode' = exitCode

SetupIdentity_Fetch ==
    /\ pc = "si_fetch"
    /\ \E outU \in Outcomes(impl), outE \in Outcomes(impl), acc \in Accounts,
          valid \in BOOLEAN, raw \in BadOutputs, nullText \in JqNullTexts :
         /\ impl = "stream" => outE = outU /\ nullText = <<>>
         /\ impl = "spawn" => valid
         /\ valid => raw = <<"<">>
         /\ LET api == ApiUser(acc, valid, raw)
                res == Run(outU, api)
                resU == RunCaptured(outU, ApiUserJq(acc.username, nullText))
                resE == RunCaptured(outE, ApiUserJq(acc.email, nullText))
                r == IF impl = "stream" THEN GetGitLabUserInfoStream(res, api)
                     ELSE GetGitLabUserInfoSpawn(resU, resE)
            IN /\ account' = Fetched(acc, valid, res.stdout)
               /\ log' = IF impl = "stream" THEN Logged("api.user", res)
                         ELSE Append(Logged("api.username", resU),
                                     [cmd |-> "api.email", went |-> Went(resE)])
               /\ IF r.kind = "raise"
                  THEN userInfo' = userInfo /\ SetupIdentityReturns(r)
                  ELSE /\ userInfo' = r
                       /\ IF DryRunReturns(args)
                          THEN SetupIdentityReturns(r)
                          ELSE pc' = "si_name" /\ UNCHANGED <<ret, exitCode>>
    /\ UNCHANGED <<lookup, proc, runs, child, impl, config, glabAuthed, handler, top, args, glabPath,
                   identity, ensured, snap, prev, calls>>

SetupIdentity_SetName ==
    /\ pc = "si_name"
    /\ \E out \in Outcomes(impl) :
         LET sc == ScopeFlag(args.scope)
             w == GitWrite(out, sc, "user.name",
                           GitSet(config[sc]["user.name"], userInfo.username))
         IN /\ log' = Logged("user.name.set", w.res)
            /\ config' = w.cfg
            /\ IF SetGitConfigRaises(w.res)
               THEN SetupIdentityReturns(Raised)
               ELSE pc' = "si_email" /\ UNCHANGED <<ret, exitCode>>
    /\ UNCHANGED <<lookup, proc, runs, child, impl, glabAuthed, account, handler, top, args, glabPath, userInfo,
                   identity, ensured, snap, prev, calls>>

SetupIdentity_SetEmail ==
    /\ pc = "si_email"
    /\ \E out \in Outcomes(impl) :
         LET sc == ScopeFlag(args.scope)
             w == GitWrite(out, sc, "user.email",
                           GitSet(config[sc]["user.email"], userInfo.email))
         IN /\ log' = Logged("user.email.set", w.res)
            /\ config' = w.cfg
            /\ IF SetGitConfigRaises(w.res)
               THEN SetupIdentityReturns(Raised)
               ELSE SetupIdentityReturns(userInfo)
    /\ UNCHANGED <<lookup, proc, runs, child, impl, glabAuthed, account, handler, top, args, glabPath, userInfo,
                   identity, ensured, snap, prev, calls>>

CallSetupGitIdentity ==
    /\ \E dryRun \in BOOLEAN, scope \in Scopes :
         Starts("setupGitIdentity",
                [NoArgs EXCEPT !.dryRun = dryRun, !.scope = scope], "si_fetch")
    /\ handler' = "lib"

\* -------------------------------------------------------- verifyGitIdentity
\* verifyGitIdentity returns r (or raises): to the library caller, or to
\* runVerify and main
VerifyReturns(r) ==
    /\ ret' = r
    /\ IF top = "cli"
       THEN pc' = "exited" /\ exitCode' = ExitCode(r.kind = "raise")
       ELSE pc' = "idle" /\ exitCode' = exitCode

Verify_GetName ==
    /\ pc = "vi_name"
    /\ \E out \in Outcomes(impl) :
         LET res == GitRead(out, ScopeFlag(args.scope), "user.name")
             g == GetGitConfigResult(res)
         IN /\ log' = Logged("user.name.get", res)
            /\ IF g.raised
               THEN identity' = identity /\ VerifyReturns(Raised)
               ELSE /\ identity' = WithUsername(identity, g)
                    /\ pc' = "vi_email"
                    /\ UNCHANGED <<ret, exitCode>>
    /\ UNCHANGED <<lookup, proc, runs, child, impl, config, glabAuthed, account, handler, top, args, glabPath,
                   userInfo, ensured, snap, prev, calls>>

Verify_GetEmail ==
    /\ pc = "vi_email"
    /\ \E out \in Outcomes(impl) :
         LET res == GitRead(out, ScopeFlag(args.scope), "user.email")
             g == GetGitConfigResult(res)
         IN /\ log' = Logged("user.email.get", res)
            /\ IF g.raised
               THEN identity' = identity /\ VerifyReturns(Raised)
               ELSE /\ identity' = WithEmail(identity, g)
                    /\ VerifyReturns(identity')
    /\ UNCHANGED <<lookup, proc, runs, child, impl, config, glabAuthed, account, handler, top, args, glabPath,
                   userInfo, ensured, snap, prev, calls>>

CallVerifyGitIdentity ==
    /\ \E scope \in Scopes :
         Starts("verifyGitIdentity", [NoArgs EXCEPT !.scope = scope], "vi_name")
    /\ handler' = "lib"

\* ------------------------------------------------------ isGlabAuthenticated
\* isGlabAuthenticated: true on a zero exit, false otherwise
IsGlabAuthenticated_Unchecked(res) == TRUE

IsGlabAuthenticated(res) == ~res.threw /\ res.code = 0

\* ------------------------------------------------------- runGlabAuthLogin
\* defaultAuthOptions
Hostname == "gitlab.com"
GitProtocol == "https"
ApiProtocol == "https"

\* buildGlabAuthLoginArgs: the authentication method, by precedence
AuthMethodArgs_TokenFirst(o) ==
    IF o.token # "" THEN <<"--token", o.token>>
    ELSE IF o.jobToken # "" THEN <<"--job-token", o.jobToken>>
    ELSE IF o.stdin THEN <<"--stdin">>
    ELSE <<>>

AuthMethodArgs(o) ==
    IF o.jobToken # "" THEN <<"--job-token", o.jobToken>>
    ELSE IF o.token # "" THEN <<"--token", o.token>>
    ELSE IF o.stdin THEN <<"--stdin">>
    ELSE <<>>

\* buildGlabAuthLoginArgs, with the defaults of runGlabAuthLogin (no apiHost,
\* useKeyring false)
BuildGlabAuthLoginArgs(o) ==
    <<"auth", "login", "--hostname", Hostname, "--git-protocol", GitProtocol,
      "--api-protocol", ApiProtocol>> \o AuthMethodArgs(o)

\* the argv of the spawn variant: a token switches to --stdin
SpawnLoginArgs(o) ==
    <<"auth", "login", "--hostname", Hostname, "--git-protocol", GitProtocol>>
        \o (IF o.token # "" THEN <<"--stdin">> ELSE <<>>)

\* input: token ? `${token}\n` : undefined  (undefined is the empty text)
LoginInput_AnyToken(o) ==
    IF o.token # "" THEN <<o.token, NL>>
    ELSE IF o.jobToken # "" THEN <<o.jobToken, NL>> ELSE <<>>

LoginInput(o) == IF o.token # "" THEN <<o.token, NL>> ELSE <<>>

\* execInteractiveCommand: stdio: input ? ['pipe', 'inherit', 'inherit'] :
\* 'inherit', and the input is written to the pipe
InteractiveChild(argv, input) ==
    [argv |-> argv,
     stdin |-> IF Truthy(input) THEN "pipe" ELSE "inherit",
     written |-> IF Truthy(input) THEN input ELSE <<>>]

\* the stdin of a command-stream child whose stdin option is left undefined:
\* the runner's default
RunnerDefaultStdin == "inherit"

\* $`glab ${args}`.run({ ..., stdin: stdin ? 'inherit' : undefined })
StreamChild(argv, o) ==
    [argv |-> argv,
     stdin |-> IF o.stdin THEN "inherit" ELSE RunnerDefaultStdin,
     written |-> <<>>]

\* the child that runGlabAuthLogin starts
LoginChild(o) ==
    IF impl = "stream" THEN StreamChild(BuildGlabAuthLoginArgs(o), o)
    ELSE InteractiveChild(SpawnLoginArgs(o), LoginInput(o))

\* runGlabAuthLogin: true on a zero exit, false otherwise
RunGlabAuthLogin_Unchecked(res) == TRUE

RunGlabAuthLogin(res) == ~res.threw /\ res.code = 0

\* runGlabAuthLogin as a library call
RunGlabAuthLogin_Run ==
    /\ pc = "rl_run"
    /\ \E out \in Outcomes(impl) :
         LET res == Run(out, [code |-> 0, stdout |-> <<>>])
         IN /\ log' = Logged("auth.login", res)
            /\ glabAuthed' = (glabAuthed \/ out = "ok")
            /\ ret' = BoolVal(RunGlabAuthLogin(res))
    /\ child' = LoginChild(args)
    /\ pc' = "idle"
    /\ UNCHANGED <<lookup, proc, runs, impl, config, account, handler, top, args, glabPath, userInfo,
                   identity, ensured, exitCode, snap, prev, calls>>

CallRunGlabAuthLogin ==
    /\ \E token \in Tokens, jobToken \in JobTokens, stdin \in BOOLEAN :
         Starts("runGlabAuthLogin",
                [NoArgs EXCEPT !.token = token, !.jobToken = jobToken,
                               !.stdin = stdin], "rl_run")
    /\ handler' = "lib"

\* ------------------------------------------------------------------ the CLI
\* makeConfig: the command line is parsed into config.  cli.js runs on the
\* command-stream variant: it imports command-stream itself and passes the
\* jobToken, stdin and apiProtocol options that only that variant reads.
MakeConfig ==
    /\ top = "none"
    /\ impl = "stream"
    /\ \E verify \in BOOLEAN, dryRun \in BOOLEAN, global \in BOOLEAN,
          local \in BOOLEAN, token \in Tokens, jobToken \in JobTokens,
          stdin \in BOOLEAN :
         Starts("cli",
                [NoArgs EXCEPT !.verify = verify, !.dryRun = dryRun,
                               !.global = global, !.local = local,
                               !.token = token, !.jobToken = jobToken,
                               !.stdin = stdin],
                "check")
    /\ handler' = "lib"

\* .check((argv) => ...): the combinations that throw
CheckThrows(a) ==
    \/ a.global /\ a.local
    \/ a.token # "" /\ a.stdin
    \/ a.token # "" /\ a.jobToken # ""

\* the validation pass of the parser: a throwing check ends the process
\* with exit code 1 before main runs
Check ==
    /\ pc = "check"
    /\ IF CheckThrows(args)
       THEN pc' = "exited" /\ exitCode' = 1
       ELSE pc' = "main" /\ exitCode' = exitCode
    /\ UNCHANGED <<lookup, proc, runs, child, impl, config, glabAuthed, account, handler, top, args,
                   glabPath, userInfo, identity, ensured, ret, log, snap, prev,
                   calls>>

\* main, up to the branch on --verify
Main ==
    /\ pc = "main"
    /\ args' = [args EXCEPT !.scope = IF args.local THEN "local" ELSE "global"]
    /\ pc' = IF args.verify THEN "rv_status" ELSE "ea_check"
    /\ UNCHANGED <<lookup, proc, runs, child, impl, config, glabAuthed, account, handler, top,
                   glabPath, userInfo, identity, ensured, ret, exitCode, log,
                   snap, prev, calls>>

\* runVerify: glab auth status, whose failure is ignored
RunVerify_AuthStatus ==
    /\ pc = "rv_status"
    /\ \E out \in Outcomes("stream") :
         log' = Logged("auth.status",
                       Run(out, [code |-> IF glabAuthed THEN 0 ELSE 1,
                                 stdout |-> <<>>]))
    /\ pc' = "vi_name"
    /\ UNCHANGED <<lookup, proc, runs, child, impl, config, glabAuthed, account, handler, top, args, glabPath,
                   userInfo, identity, ensured, ret, exitCode, snap, prev, calls>>

\* ensureAuthenticated: the check and the branch on it
EnsureAuthenticated_Check ==
    /\ pc = "ea_check"
    /\ \E out \in Outcomes(impl) :
         LET res == Run(out, [code |-> IF glabAuthed THEN 0 ELSE 1,
                              stdout |-> <<>>])
         IN /\ log' = Logged("auth.status", res)
            /\ IF IsGlabAuthenticated(res)
               THEN handler' = "already" /\ pc' = "sg_which"
               ELSE handler' = handler /\ pc' = "ea_login"
    /\ UNCHANGED <<lookup, proc, runs, child, impl, config, glabAuthed, account, top, args, glabPath, userInfo,
                   identity, ensured, ret, exitCode, snap, prev, calls>>

\* handleNotAuthenticated: the login and the branch on it
HandleNotAuthenticated_Login ==
    /\ pc = "ea_login"
    /\ \E out \in Outcomes(impl) :
         LET res == Run(out, [code |-> 0, stdout |-> <<>>])
         IN /\ log' = Logged("auth.login", res)
            /\ glabAuthed' = (glabAuthed \/ out = "ok")
            /\ IF RunGlabAuthLogin(res)
               THEN /\ handler' = "notauth"
                    /\ pc' = "sg_which"
                    /\ UNCHANGED <<ensured, exitCode>>
               ELSE /\ handler' = handler
                    /\ ensured' = "false"
                    /\ pc' = "exited"
                    /\ exitCode' = 1
    /\ child' = LoginChild(args)
    /\ UNCHANGED <<lookup, proc, runs, impl, config, account, top, args, glabPath, userInfo,
                   identity, ret, snap, prev, calls>>

Next ==
    \/ CallRunGlabAuthSetupGit
    \/ CallVerifyGitIdentity
    \/ Verify_GetName
    \/ Verify_GetEmail
    \/ MakeConfig
    \/ Check
    \/ Main
    \/ RunVerify_AuthStatus
    \/ EnsureAuthenticated_Check
    \/ HandleNotAuthenticated_Login
    \/ CallSetupGitIdentity
    \/ SetupIdentity_Fetch
    \/ SetupIdentity_SetName
    \/ SetupIdentity_SetEmail
    \/ SetupGit_GetGlabPath
    \/ SetupGit_GetExisting
    \/ SetupGit_Clear
    \/ SetupGit_Add

Spec == Init /\ [][Next]_vars

\* a caller that only logs in: runGlabAuthLogin with every combination of
\* the authentication options
NextLogin ==
    \/ CallRunGlabAuthLogin
    \/ RunGlabAuthLogin_Run

SpecLogin == Init /\ [][NextLogin]_vars

\* a caller that only fetches the user record
NextFetch ==
    \/ CallGetGitLab
    \/ GetGitLab_Fetch

SpecFetch == Init /\ [][NextFetch]_vars

\* a caller that only writes and reads configuration values
NextConfig ==
    \/ CallSetGitConfig
    \/ SetGitConfig_Run
    \/ CallGetGitConfig
    \/ GetGitConfig_Run

SpecConfig == Init /\ [][NextConfig]_vars

\* ------------------------------- isGlabAuthenticated, getGlabPath as calls
\* isGlabAuthenticated as a library call
IsGlabAuthenticated_Run ==
    /\ pc = "ia_run"
    /\ \E out \in Outcomes(impl) :
         LET res == RunCaptured(out, [code |-> IF glabAuthed THEN 0 ELSE 1,
                                      stdout |-> <<>>])
         IN /\ log' = Logged("auth.status", res)
            /\ ret' = BoolVal(IsGlabAuthenticated(res))
    /\ pc' = "idle"
    /\ UNCHANGED <<lookup, proc, runs, child, impl, config, glabAuthed, account,
                   handler, top, args, glabPath, userInfo, identity, ensured,
                   exitCode, snap, prev, calls>>

CallIsGlabAuthenticated ==
    /\ Starts("isGlabAuthenticated", NoArgs, "ia_run")
    /\ handler' = "lib"

\* 'glab CLI not found. Please install glab: <url>'
InstallUrl == "https://gitlab.com/gitlab-org/cli#installation"
GlabNotFound == <<"glab CLI not found. Please install glab: ", InstallUrl>>

\* what the lookup child did, whatever the caller is told of it
LookupMet(out, w) ==
    [out |-> out,
     code |-> IF out = "ok" THEN w.code ELSE 1,
     stdout |-> IF out = "ok" THEN w.stdout ELSE <<>>]

\* getGlabPath as a library call
GetGlabPath_Run ==
    /\ pc = "gp_run"
    /\ \E out \in Outcomes(impl), w \in WhichOutputs :
         LET res == RunCaptured(out, w)
             r == GetGlabPathResult(res)
         IN /\ lookup' = LookupMet(out, w)
            /\ log' = Append(log, [cmd |-> "which",
                                   went |-> IF r.raised THEN "fail" ELSE "ok"])
            /\ ret' = IF r.raised THEN RaisedWith(GlabNotFound)
                      ELSE TextVal(r.path)
    /\ pc' = "idle"
    /\ UNCHANGED <<proc, runs, child, impl, config, glabAuthed, account,
                   handler, top, args, glabPath, userInfo, identity, ensured,
                   exitCode, snap, prev, calls>>

CallGetGlabPath ==
    /\ Starts("getGlabPath", NoArgs, "gp_run")
    /\ handler' = "lib"

\* a caller that only probes: is glab there, is it logged in
NextProbe ==
    \/ CallIsGlabAuthenticated
    \/ IsGlabAuthenticated_Run
    \/ CallGetGlabPath
    \/ GetGlabPath_Run

SpecProbe == Init /\ [][NextProbe]_vars

\* ------------------------------------- execCommand, execInteractiveCommand
\* What can become of the child that spawn() is asked for: it runs and exits
\* with code 0 or 1; a signal ends it; the executable is not found (spawn
\* reports ENOENT, EACCES or EAGAIN through an 'error' event, followed by
\* 'close' with the negative error number); the process has no file
\* descriptor left (EMFILE, ENFILE: the 'error' event is scheduled and the
\* child is handed back without its stdio streams); spawn() itself throws
\* (any other error of the system call).
Fates == {"exit0", "exit1", "signal", "enoent", "emfile", "throws"}
Execs == {"execCommand", "execInteractiveCommand"}

SpawnErrorMessage == <<"spawn ", "error">>
Enoent == -2

\* the events of a child
ErrorEvent == [name |-> "error", close |-> Exited(0)]
CloseEvent(c) == [name |-> "close", close |-> c]

\* the events the child will emit, in the order the runtime emits them:
\* 'close' comes after 'exit', or after 'error' when the spawn failed
EventsOf(fate) ==
    CASE fate = "exit0"  -> <<CloseEvent(Exited(0))>>
      [] fate = "exit1"  -> <<CloseEvent(Exited(1))>>
      [] fate = "signal" -> <<CloseEvent(Signalled)>>
      [] OTHER           -> <<ErrorEvent, CloseEvent(Exited(Enoent))>>

\* the body of the promise throws before the listeners are attached: spawn()
\* throws, or child.stdout is undefined in child.stdout.on('data', ...);
\* execInteractiveCommand does not touch the streams it did not ask for
ExecutorThrows(kind, fate) ==
    \/ fate = "throws"
    \/ fate = "emfile" /\ kind = "execCommand"

\* new Promise((resolve) => { const child = spawn(...); ... })
Spawned(kind, fate) ==
    IF ExecutorThrows(kind, fate)
    THEN [kind |-> kind, fate |-> fate, events |-> <<>>, state |-> "rejected",
          exitCode |-> 0, stderr |-> <<>>]
    ELSE [kind |-> kind, fate |-> fate, events |-> EventsOf(fate),
          state |-> "pending", exitCode |-> 0, stderr |-> <<>>]

\* resolve(...): the first call settles the promise, the later ones do nothing
Resolve(p, code, stderr) ==
    IF p.state = "pending"
    THEN [p EXCEPT !.state = "resolved", !.exitCode = code, !.stderr = stderr]
    ELSE p

\* child.on('close', (exitCode) => resolve({ ..., exitCode: exitCode || 0 }))
\* (the model's children print nothing on stderr)
OnClose(p, close) == Resolve(p, ExitCodeOrZero(close), <<>>)

\* child.on('error', (error) => resolve({ ..., stderr: error.message,
\* exitCode: 1 })); execInteractiveCommand resolves { exitCode: 1 } only
OnError(p) ==
    Resolve(p, 1, IF p.kind = "execCommand" THEN SpawnErrorMessage ELSE <<>>)

\* the call of spawn inside the promise
Exec_Spawn ==
    /\ pc = "ex_spawn"
    /\ \E fate \in Fates :
         /\ proc' = Spawned(top, fate)
         /\ IF ExecutorThrows(top, fate)
            THEN pc' = "idle" /\ ret' = RaisedWith(Rejected)
            ELSE pc' = "ex_wait" /\ ret' = ret
    /\ UNCHANGED <<lookup, runs, child, impl, config, glabAuthed, account,
                   handler, top, args, glabPath, userInfo, identity, ensured,
                   exitCode, log, snap, prev, calls>>

\* the next event of the child reaches its listener
Exec_Deliver ==
    /\ pc = "ex_wait"
    /\ proc.events # <<>>
    /\ LET ev == Head(proc.events)
           p == [proc EXCEPT !.events = Tail(proc.events)]
       IN proc' = IF ev.name = "close" THEN OnClose(p, ev.close) ELSE OnError(p)
    /\ pc' = IF Tail(proc.events) = <<>> THEN "idle" ELSE pc
    /\ ret' = VoidVal
    /\ UNCHANGED <<lookup, runs, child, impl, config, glabAuthed, account,
                   handler, top, args, glabPath, userInfo, identity, ensured,
                   exitCode, log, snap, prev, calls>>

CallExec ==
    /\ impl = "spawn"
    /\ \E kind \in Execs : Starts(kind, NoArgs, "ex_spawn")
    /\ handler' = "lib"

\* a caller of the two command runners of the node:child_process variant
NextExec ==
    \/ CallExec
    \/ Exec_Spawn
    \/ Exec_Deliver

SpecExec == Init /\ [][NextExec]_vars

\* ----------------------------------- two setupGitIdentity runs, one store
\* Two calls of setupGitIdentity for the same scope whose awaits interleave
\* (two processes, or two un-awaited calls of one process): the first with
\* the caller's dryRun option, the second writing.
RunIsDry(r) == r = 1 /\ args.dryRun

\* nothing in setupGitIdentity or setGitConfig waits for another run: a
\* write goes ahead wherever the other run stands
MayWrite_Locked(r) == \A o \in RunIds \ {r} : runs[o].pc # "email"

MayWrite(r) == TRUE

\* the run is over when both runs are
TwoRunsNext(rs) ==
    /\ runs' = rs
    /\ IF \A r \in RunIds : rs[r].pc = "done"
       THEN pc' = "idle" /\ ret' = VoidVal
       ELSE pc' = pc /\ ret' = ret

\* getGitLabUserInfo of run r, and the dry-run return
Two_Fetch(r) ==
    /\ pc = "tw"
    /\ runs[r].pc = "none"
    /\ \E outU \in Outcomes(impl), outE \in Outcomes(impl), acc \in TwoAccounts :
         /\ impl = "stream" => outE = outU
         /\ LET api == ApiUser(acc, TRUE, <<>>)
                res == Run(outU, api)
                resU == RunCaptured(outU, ApiUserJq(acc.username, <<>>))
                resE == RunCaptured(outE, ApiUserJq(acc.email, <<>>))
                i == IF impl = "stream" THEN GetGitLabUserInfoStream(res, api)
                     ELSE GetGitLabUserInfoSpawn(resU, resE)
                went == IF impl = "stream" THEN <<Went(res)>>
                        ELSE <<Went(resU), Went(resE)>>
                met == [runs[r] EXCEPT !.dryRun = RunIsDry(r), !.acc = acc,
                                       !.fetch = went]
            IN TwoRunsNext(
                 [runs EXCEPT ![r] =
                    IF i.kind = "raise"
                    THEN [met EXCEPT !.pc = "done", !.ret = Outcome(i)]
                    ELSE IF DryRunReturns([dryRun |-> RunIsDry(r)])
                    THEN [met EXCEPT !.pc = "done", !.info = i, !.ret = i]
                    ELSE [met EXCEPT !.pc = "name", !.info = i]])
    /\ UNCHANGED <<lookup, proc, child, impl, config, glabAuthed, account,
                   handler, top, args, glabPath, userInfo, identity, ensured,
                   exitCode, log, snap, prev, calls>>

\* await setGitConfig('user.name', username, { scope }) of run r
Two_SetName(r) ==
    /\ pc = "tw"
    /\ runs[r].pc = "name"
    /\ MayWrite(r)
    /\ \E out \in Outcomes(impl) :
         LET sc == ScopeFlag(args.scope)
             w == GitWrite(out, sc, "user.name",
                           GitSet(config[sc]["user.name"], runs[r].info.username))
             wrote == [runs[r] EXCEPT
                         !.log = Append(@, [cmd |-> "user.name.set",
                                         went |-> Went(w.res)])]
         IN /\ config' = w.cfg
            /\ TwoRunsNext(
                 [runs EXCEPT ![r] =
                    IF SetGitConfigRaises(w.res)
                    THEN [wrote EXCEPT !.pc = "done", !.ret = Raised]
                    ELSE [wrote EXCEPT !.pc = "email"]])
    /\ UNCHANGED <<lookup, proc, child, impl, glabAuthed, account, handler,
                   top, args, glabPath, userInfo, identity, ensured, exitCode,
                   log, snap, prev, calls>>

\* await setGitConfig('user.email', email, { scope }) of run r, and the return
Two_SetEmail(r) ==
    /\ pc = "tw"
    /\ runs[r].pc = "email"
    /\ MayWrite(r)
    /\ \E out \in Outcomes(impl) :
         LET sc == ScopeFlag(args.scope)
             w == GitWrite(out, sc, "user.email",
                           GitSet(config[sc]["user.email"], runs[r].info.email))
             wrote == [runs[r] EXCEPT
                         !.log = Append(@, [cmd |-> "user.email.set",
                                         went |-> Went(w.res)])]
         IN /\ config' = w.cfg
            /\ TwoRunsNext(
                 [runs EXCEPT ![r] =
                    IF SetGitConfigRaises(w.res)
                    THEN [wrote EXCEPT !.pc = "done", !.ret = Raised]
                    ELSE [wrote EXCEPT !.pc = "done", !.ret = wrote.info]])
    /\ UNCHANGED <<lookup, proc, child, impl, glabAuthed, account, handler,
                   top, args, glabPath, userInfo, identity, ensured, exitCode,
                   log, snap, prev, calls>>

\* the caller starts the two runs, as the first thing it does
CallTwoSetupGitIdentity ==
    /\ calls = 0
    /\ \E dryRun \in BOOLEAN, scope \in Scopes :
         Starts("twoSetupGitIdentity",
                [NoArgs EXCEPT !.dryRun = dryRun, !.scope = scope], "tw")
    /\ handler' = "lib"

NextTwo ==
    \/ CallTwoSetupGitIdentity
    \/ \E r \in RunIds : Two_Fetch(r)
    \/ \E r \in RunIds : Two_SetName(r)
    \/ \E r \in RunIds : Two_SetEmail(r)

SpecTwo == Init /\ [][NextTwo]_vars

\* ================================================================ properties
WriteCmds == {"helper.set", "helper.add", "user.name.set", "user.email.set"}
SetupGitCmds == {"which", "helper.get", "helper.set", "helper.add"}

Cmd(c, w) == [cmd |-> c, went |-> w]
Has(c, w) == \E i \in DOMAIN log : log[i] = Cmd(c, w)
Issued(c) == \E i \in DOMAIN log : log[i].cmd = c
Count(c) == Cardinality({i \in DOMAIN log : log[i].cmd = c})
NoWriteIssued == \A i \in DOMAIN log : log[i].cmd \notin WriteCmds

\* the CLI is past its validation pass and runs the setup flow
InSetupFlow ==
    /\ top = "cli"
    /\ ~args.verify
    /\ pc \notin {"check", "main"}
    /\ ~CheckThrows(args)

\* a library call of op has returned or raised
Returned(op) == pc = "idle" /\ top = op

\* what verifyGitIdentity returns on a store whose reads succeed
ReadIdentity(cfg, scope) ==
    LET rd(k) == LET g == GitGet(cfg[ScopeFlag(scope)][k])
                 IN GetGitConfigResult([threw |-> FALSE, code |-> g.code,
                                        stdout |-> Capture(impl, g.stdout)])
    IN WithEmail(WithUsername(NoVal, rd("user.name")), rd("user.email"))

\* the value `git config --get` reports for the helper key of a store
Last(entries) == entries[Len(entries)]

\* ---------------------------------------------------------------------- C1
\* C1: a CLI run with --dry-run issues no write to any git configuration
\* value, from start to exit, whatever the authentication state is.
C1_DryRunCliNoWrite ==
    (top = "cli" /\ args.dryRun) => NoWriteIssued

\* ---------------------------------------------------------------------- C2
\* C2: setupGitIdentity with dryRun = true issues no git config write and
\* leaves the store as it found it, so that verifyGitIdentity gives the same
\* GitIdentity before and after; when it returns, it returns the fetched
\* identity.
C2_DryRunNoWrites ==
    (top = "setupGitIdentity" /\ args.dryRun) =>
        /\ NoWriteIssued
        /\ config = snap
        /\ \A sc \in Scopes : ReadIdentity(config, sc) = ReadIdentity(snap, sc)
        /\ (pc = "idle" /\ ret.kind # "raise") =>
              /\ ret.kind = "info"
              /\ ret = userInfo
              /\ impl = "stream" =>
                    ret = InfoVal(account.username.v, account.email.v)

C2_Witness ==
    /\ Returned("setupGitIdentity")
    /\ args.dryRun
    /\ ret.kind = "info"
    /\ snap[args.scope]["user.name"] = <<OldName>>
    /\ ret.username # OldName

\* ---------------------------------------------------------------------- C3
\* C3: setupGitIdentity with dryRun = false that returns has written
\* user.name and then user.email at the given scope: the scope holds the
\* fetched username and email, and the fetched UserInfo is what it returns.
C3_WritesIdentity ==
    (pc \in {"idle", "exited"} /\ top \in {"setupGitIdentity", "cli"}
       /\ ~args.verify /\ ~args.dryRun /\ ret.kind = "info") =>
        /\ config[args.scope]["user.name"] = <<userInfo.username>>
        /\ config[args.scope]["user.email"] = <<userInfo.email>>
        /\ ret = userInfo
        /\ impl = "stream" => ret = InfoVal(account.username.v, account.email.v)
        /\ Len(log) >= 2
        /\ log[Len(log) - 1] = Cmd("user.name.set", "ok")
        /\ log[Len(log)] = Cmd("user.email.set", "ok")
        /\ Count("user.name.set") = 1
        /\ Count("user.email.set") = 1

C3_Witness ==
    /\ Returned("setupGitIdentity")
    /\ ~args.dryRun
    /\ args.scope = "local"
    /\ ret.kind = "info"
    /\ snap["local"]["user.email"] = <<>>
    /\ config["local"]["user.email"] = <<UserEmail>>

HelperSet(cfg) == Helpers(cfg) # <<>> /\ Last(Helpers(cfg)) # <<>>

\* the same, and the value is more than whitespace
HelperNonBlank(cfg) == Helpers(cfg) # <<>> /\ Trim(Last(Helpers(cfg))) # <<>>

SecondUnforced ==
    /\ Returned("runGlabAuthSetupGit")
    /\ ~args.force
    /\ prev.op = "runGlabAuthSetupGit"
    /\ ~prev.args.force

C8_EnsureAuthenticated ==
    InSetupFlow =>
        /\ ensured = "true" =>
              /\ Has("auth.status", "ok") \/ Has("auth.login", "ok")
              /\ Issued("which")
        /\ ensured = "false" =>
              ~Has("auth.status", "ok") /\ ~Has("auth.login", "ok")
        /\ (ensured = "unset" /\ (Has("auth.status", "ok") \/ Has("auth.login", "ok")))
              => pc \in {"sg_which", "sg_get", "sg_clear", "sg_add"}
        /\ pc \in {"si_fetch", "si_name", "si_email"} => ensured = "true"
        /\ pc = "exited" => ensured # "unset"

C8_Witness ==
    /\ top = "cli"
    /\ pc = "si_fetch"
    /\ ensured = "true"
    /\ Has("auth.login", "ok")
    /\ ret = BoolVal(FALSE)

\* ---------------------------------------------------------------------- C9
\* C9: in one ensureAuthenticated run the login is attempted at most once
\* and only right after a failed check; the helper setup is never attempted
\* after a failed login and is attempted exactly once after a successful
\* check or login.
C9_LoginAndSetupOnce ==
    InSetupFlow =>
        /\ Count("auth.status") <= 1
        /\ Count("auth.login") <= 1
        /\ Issued("auth.login") =>
              log[1] = Cmd("auth.status", "fail") /\ log[2].cmd = "auth.login"
        /\ Has("auth.login", "fail") =>
              /\ \A i \in DOMAIN log : log[i].cmd \notin SetupGitCmds
              /\ pc = "exited"
              /\ Len(log) = 2
        /\ Count("which") <= 1
        /\ ensured = "true" => Count("which") = 1
        /\ \A i \in DOMAIN log : log[i].cmd \in SetupGitCmds =>
              /\ Has("auth.status", "ok") \/ Has("auth.login", "ok")
              /\ i > 1
              /\ log[i].cmd = "which" => log[i - 1].went = "ok"

C9_Witness ==
    /\ top = "cli"
    /\ ensured = "true"
    /\ log[1] = Cmd("auth.status", "fail")
    /\ log[2] = Cmd("auth.login", "ok")
    /\ Count("which") = 1
    /\ Issued("helper.add")

\* --------------------------------------------------------------------- C10
\* C10: the CLI exits with 0 when the setup completes, with 1 when an error
\* reaches main or the login fails, and with 0 after --verify whether or not
\* user.name and user.email are set and whether or not glab is authenticated.
C10_ExitCode ==
    /\ pc = "exited" <=> exitCode # -1
    /\ pc = "exited" =>
          /\ top = "cli"
          /\ exitCode = IF ret.kind = "raise" \/ Has("auth.login", "fail")
                           \/ CheckThrows(args)
                        THEN 1 ELSE 0
          /\ exitCode = 0 =>
                IF args.verify THEN ret.kind = "identity" ELSE ret.kind = "info"
          /\ (args.verify /\ ret.kind = "identity") =>
                exitCode = 0 /\ Len(log) = 3 /\ ~Issued("auth.login")

C10_Witness ==
    /\ pc = "exited"
    /\ args.verify
    /\ exitCode = 0
    /\ ~glabAuthed
    /\ ret.uNull
    /\ ~ret.eNull

\* --------------------------------------------------------------------- C11
IdentityCmds == {"api.user", "api.username", "api.email",
                 "user.name.set", "user.email.set"}

\* in the CLI setup flow the fetch of the identity and the writes of
\* user.name and user.email come after a successful check or login and
\* after the commands of the credential-helper step
C11_Order ==
    InSetupFlow =>
        \A i \in DOMAIN log :
            log[i].cmd \in IdentityCmds =>
              /\ \E j \in 1..(i - 1) :
                    log[j] \in {Cmd("auth.status", "ok"), Cmd("auth.login", "ok")}
              /\ \E j \in 1..(i - 1) : log[j].cmd = "which"
              /\ \A j \in DOMAIN log : log[j].cmd \in SetupGitCmds => j < i
              /\ ensured = "true"

\* C11: in the CLI setup flow the identity is fetched, and user.name and
\* user.email are written, only after the authentication check or the
\* login succeeded and after the credential-helper step; once the process
\* has exited (after a failed login, or when done) no command runs and
\* nothing changes any more.
C11_SetupFlow ==
    /\ [](C11_Order)
    /\ [](Has("auth.login", "fail") => pc = "exited")
    /\ [][pc # "exited"]_vars

C11_Witness ==
    /\ pc = "exited"
    /\ exitCode = 0
    /\ ~args.dryRun
    /\ log[1] = Cmd("auth.status", "fail")
    /\ log[2] = Cmd("auth.login", "ok")
    /\ log[Len(log)] = Cmd("user.email.set", "ok")

\* --------------------------------------------------------------------- C12
MethodFlags == {"--job-token", "--token", "--stdin"}
HasArg(argv, x) == \E i \in DOMAIN argv : argv[i] = x
HasPair(argv, x, v) ==
    \E i \in 1..(Len(argv) - 1) : argv[i] = x /\ argv[i + 1] = v
CountMethods(argv) == Cardinality({i \in DOMAIN argv : argv[i] \in MethodFlags})

\* the login child of the running operation has been started
LoginStarted == child # NoChild

\* the method the options ask for, by the precedence jobToken, token, stdin
MethodByPrecedence(argv, o) ==
    IF o.jobToken # "" THEN HasPair(argv, "--job-token", o.jobToken)
    ELSE IF o.token # "" THEN HasPair(argv, "--token", o.token)
    ELSE IF o.stdin THEN HasArg(argv, "--stdin")
    ELSE CountMethods(argv) = 0

\* C12 as stated: for every AuthOptions value the argv of `auth login`
\* contains exactly one of --job-token <value>, --token <value>, --stdin,
\* chosen by the precedence jobToken, token, stdin.
C12_Original ==
    LoginStarted =>
        /\ CountMethods(child.argv) = 1
        /\ MethodByPrecedence(child.argv, args)

\* C12 amended: the argv contains at most one of the three; the
\* command-stream variant appends the one of the first of jobToken, token,
\* stdin that is set, and none when none is set; the spawn variant appends
\* only --stdin, exactly when a token is given.
C12_Amended ==
    LoginStarted =>
        /\ CountMethods(child.argv) <= 1
        /\ SubSeq(child.argv, 1, 2) = <<"auth", "login">>
        /\ impl = "stream" => MethodByPrecedence(child.argv, args)
        /\ impl = "spawn" =>
              /\ ~HasArg(child.argv, "--job-token")
              /\ ~HasArg(child.argv, "--token")
              /\ HasArg(child.argv, "--stdin") <=> args.token # ""

C12_Witness ==
    /\ Returned("runGlabAuthLogin")
    /\ impl = "stream"
    /\ args.jobToken = "J"
    /\ args.token = "T"
    /\ args.stdin
    /\ child.argv[Len(child.argv)] = "J"
    /\ child.argv[Len(child.argv) - 1] = "--job-token"

\* --------------------------------------------------------------------- C13
\* the combinations of flags that the documentation calls mutually exclusive
Conflicting(a) ==
    \/ a.global /\ a.local
    \/ a.token # "" /\ a.stdin
    \/ a.token # "" /\ a.jobToken # ""
    \/ a.stdin /\ a.jobToken # ""

\* C13: the CLI rejects, in a validation pass before any external command,
\* every invocation that combines --global with --local, --token with
\* --stdin, --token with --job-token, or --stdin with --job-token.
C13_RejectsConflicts ==
    (top = "cli" /\ pc # "check" /\ Conflicting(args)) =>
        /\ pc = "exited"
        /\ exitCode = 1
        /\ log = <<>>

\* --------------------------------------------------------------------- C14
\* C14: runGlabAuthLogin returns true only when the child process exited
\* with code 0, returns false for every other outcome, and never raises.
C14_LoginResult ==
    Returned("runGlabAuthLogin") =>
        /\ ret.kind = "bool"
        /\ ret.bool <=> log = <<Cmd("auth.login", "ok")>>

C16_NeverEmpty ==
    (pc = "idle" /\ top \in FetchOps) =>
        /\ ret.kind = "text" => ret.text # <<>>
        /\ ret.kind = "info" => ret.username # <<>> /\ ret.email # <<>>
        /\ (top # "getGitLabEmail" /\ Falsy(account.username))
              => ret.kind = "raise"
        /\ (top # "getGitLabUsername" /\ Falsy(account.email))
              => ret.kind = "raise"

\* --------------------------------------------------------------------- C17
\* t occurs in s as a run of consecutive characters
Contains(s, t) ==
    \E i \in 0..(Len(s) - Len(t)) : SubSeq(s, i + 1, i + Len(t)) = t

\* C17: whenever `glab api user` exits zero with a stdout that is not valid
\* JSON, getGitLabUsername, getGitLabEmail and getGitLabUserInfo raise an
\* error whose message contains that stdout as it was received.
C17_ParseError ==
    (pc = "idle" /\ top \in FetchOps /\ log = <<Cmd("api.user", "ok")>>
       /\ ~account.valid) =>
        /\ account.stdout \in BadOutputs
        /\ ret.kind = "raise"
        /\ Contains(ret.msg, account.stdout)
        /\ ret.msg = ParseErrorMessage(account.stdout)

C17_Witness ==
    /\ Returned("getGitLabEmail")
    /\ log = <<Cmd("api.user", "ok")>>
    /\ ~account.valid
    /\ account.stdout = <<SP, "<", NL>>
    /\ ret.kind = "raise"
    /\ ret.msg[Len(ret.msg)] = NL

\* --------------------------------------------------------------------- C18
\* the running getGitConfig call follows a setGitConfig call that returned,
\* for the same key and scope, and the store holds the value of that call
ReadsBack ==
    /\ Returned("getGitConfig")
    /\ prev.op = "setGitConfig"
    /\ prev.ret = VoidVal
    /\ prev.args.key = args.key
    /\ ScopeFlag(prev.args.scope) = ScopeFlag(args.scope)
    /\ config[ScopeFlag(args.scope)][args.key] = <<prev.args.value>>
    /\ log = <<Cmd(GetCmd(args.key), "ok")>>

\* C18: for every key, value and scope, a value written by setGitConfig and
\* then read by getGitConfig in the same scope is returned exactly as it
\* was written.
C18_RoundTrip ==
    ReadsBack => ret = TextVal(prev.args.value)

\* --------------------------------------------------------------------- C19
\* C19: getGitConfig returns null for every key that was never written in
\* the scope and for every non-zero exit of the underlying command, and it
\* never raises.
C19_NullWhenUnset ==
    Returned("getGitConfig") =>
        /\ ret.kind # "raise"
        /\ snap[ScopeFlag(args.scope)][args.key] = <<>> => ret = NullVal
        /\ log[1].went = "fail" => ret = NullVal

\* --------------------------------------------------------------------- C20
\* a field of the returned identity is the value the store holds, or null
StoredOrNull(isNull, v, entries) ==
    isNull \/ (entries # <<>> /\ v = Last(entries))

\* C20: verifyGitIdentity never raises and never writes: it returns an
\* object whose username and email are each the stored value or null, and
\* the store is as it was before the call.
C20_VerifyReadOnly ==
    top = "verifyGitIdentity" =>
        /\ NoWriteIssued
        /\ config = snap
        /\ pc = "idle" =>
              /\ ret.kind = "identity"
              /\ StoredOrNull(ret.uNull, ret.username,
                              snap[ScopeFlag(args.scope)]["user.name"])
              /\ StoredOrNull(ret.eNull, ret.email,
                              snap[ScopeFlag(args.scope)]["user.email"])

\* --------------------------------------------------------------------- C21
\* C21: isGlabAuthenticated never raises; it returns true exactly when the
\* `glab auth status` child exited with code 0, and false for every other
\* end of the child and for a command that could not be run.
C21_AuthStatusResult ==
    Returned("isGlabAuthenticated") =>
        /\ ret.kind = "bool"
        /\ Len(log) = 1
        /\ log[1].cmd = "auth.status"
        /\ ret.bool <=> log[1].went = "ok"

\* --------------------------------------------------------------------- C22
\* the lookup gave no path: it did not run to a zero exit, or printed nothing
LookupFailed ==
    lookup.out # "ok" \/ lookup.code # 0 \/ lookup.stdout = <<>>

SameResult(a, b) ==
    /\ a.kind = b.kind
    /\ a.kind = "info" => a.username = b.username /\ a.email = b.email

\* the result of a command that exited zero and printed stdout
ExitedZero(stdout) ==
    [threw |-> FALSE, killed |-> FALSE, code |-> 0, stdout |-> stdout]

\* what each variant of getGitLabUserInfo gives for an account whose record
\* glab prints, when every fetch exits zero
UserInfoOfStream(a) ==
    GetGitLabUserInfoStream(ExitedZero(JsonText),
                            [valid |-> TRUE, username |-> a.username,
                             email |-> a.email])

UserInfoOfSpawn(a, nullText) ==
    GetGitLabUserInfoSpawn(
        ExitedZero(Capture("spawn", JqText(a.username, nullText) \o <<NL>>)),
        ExitedZero(Capture("spawn", JqText(a.email, nullText) \o <<NL>>)))

\* every fetch of the call exited zero on a record printed as JSON
FetchedCleanly ==
    /\ Returned("getGitLabUserInfo")
    /\ account.valid
    /\ \A i \in DOMAIN log : log[i].went = "ok"

\* C23: the two implementations of getGitLabUserInfo (one fetch parsed for
\* both fields; two concurrent fetches of username and email) are
\* equivalent: for every account state, what the loaded variant returned is
\* what the other variant gives for the same account, and one raises exactly
\* when the other raises.
C23_Equivalent ==
    FetchedCleanly =>
        IF impl = "stream"
        THEN \A nullText \in JqNullTexts :
                SameResult(ret, UserInfoOfSpawn(account, nullText))
        ELSE SameResult(ret, UserInfoOfStream(account))

\* --------------------------------------------------------------------- C24
\* the executable could not be located or spawned
NotSpawned == proc.fate \in {"enoent", "emfile", "throws"}

\* C24: execCommand never rejects: when the executable cannot be located or
\* spawned, its promise resolves with a non-zero exitCode and the error
\* message in stderr, whichever of 'error' and 'close' is delivered first.
C24_NeverRejects ==
    proc.kind = "execCommand" =>
        /\ proc.state # "rejected"
        /\ (NotSpawned /\ pc = "idle") =>
              /\ proc.state = "resolved"
              /\ proc.exitCode # 0
              /\ proc.stderr = SpawnErrorMessage

\* --------------------------------------------------------------------- C30
\* C30: execCommand and execInteractiveCommand report exitCode 0 only when
\* the child exited with code 0: a child ended by a signal, which has no
\* exit code, is not reported as a success.
C30_ZeroOnlyOnZeroExit ==
    (proc.kind \in Execs /\ proc.state = "resolved" /\ proc.exitCode = 0) =>
        proc.fate = "exit0"

\* --------------------------------------------------------------------- C25
\* C25: after a runGlabAuthSetupGit call with force = true that returns true,
\* the global credential.https://<hostname>.helper entries are exactly one
\* empty reset entry followed by one glab helper entry, whatever the entries
\* were before the call and however many calls were made before.
C25_ForceClears ==
    (Returned("runGlabAuthSetupGit") /\ args.force /\ ret = BoolVal(TRUE)) =>
        Helpers(config) = << <<>>, CredentialHelper(glabPath) >>

\* --------------------------------------------------------------------- C29
\* C29: a runGlabAuthSetupGit call that returns false leaves the global
\* credential.https://<hostname>.helper entries exactly as they were before
\* the call.
C29_FalseLeavesHelper ==
    (Returned("runGlabAuthSetupGit") /\ ret = BoolVal(FALSE)) =>
        Helpers(config) = Helpers(snap)

\* --------------------------------------------------------------------- C28
VerifyCmds == {"auth.status", "user.name.get", "user.email.get"}

\* the scope the command line selects
SelectedScope == IF args.local THEN "local" ELSE "global"

\* C28: a CLI run with --verify never attempts a login, never runs the
\* credential-helper setup and never writes a git configuration value: it
\* runs glab auth status once and then reads user.name and user.email, at
\* the selected scope, and what it shows is what that scope holds.
C28_VerifyOnlyReads ==
    (top = "cli" /\ args.verify) =>
        /\ \A i \in DOMAIN log : log[i].cmd \in VerifyCmds
        /\ \A i \in DOMAIN log : (log[i].cmd = "auth.status") = (i = 1)
        /\ Len(log) <= 3
        /\ config = snap
        /\ child = NoChild
        /\ ensured = "unset"
        /\ (pc = "exited" /\ ret.kind = "identity") =>
              /\ Len(log) = 3
              /\ log[2].cmd = "user.name.get"
              /\ log[3].cmd = "user.email.get"
              /\ StoredOrNull(ret.uNull, ret.username,
                              snap[SelectedScope]["user.name"])
              /\ StoredOrNull(ret.eNull, ret.email,
                              snap[SelectedScope]["user.email"])

C28_Witness ==
    /\ top = "cli"
    /\ args.verify
    /\ args.local
    /\ pc = "exited"
    /\ exitCode = 0
    /\ Len(log) = 3
    /\ ~glabAuthed
    /\ ~ret.uNull
    /\ ret.username = OldName
    /\ snap["global"]["user.name"] = <<>>
    /\ snap["global"]["user.email"] # <<>>
    /\ ret.eNull

\* --------------------------------------------------------------------- C26
\* the two runs are over; the first was a dry run, the second wrote, and both
\* met the same account with the same outcome of the fetch commands
DryAndWetPair ==
    /\ top = "twoSetupGitIdentity"
    /\ pc = "idle"
    /\ runs[1].dryRun
    /\ ~runs[2].dryRun
    /\ runs[1].acc = runs[2].acc
    /\ runs[1].fetch = runs[2].fetch

\* the fetch of run r failed
FetchFailed(r) == runs[r].pc = "done" /\ runs[r].info = NoVal

\* C26: for the same account state and scope, setupGitIdentity with
\* dryRun = true returns exactly the username and email that the run with
\* dryRun = false returns and writes; a failure of the identity fetch fails
\* both runs in the same way, before any write.
C26_DryRunAgrees ==
    DryAndWetPair =>
        /\ FetchFailed(1) <=> FetchFailed(2)
        /\ FetchFailed(1) =>
              /\ runs[1].ret = runs[2].ret
              /\ runs[1].ret.kind = "raise"
              /\ runs[2].log = <<>>
              /\ config = snap
        /\ runs[1].log = <<>>
        /\ runs[2].ret.kind = "info" =>
              /\ runs[1].ret = runs[2].ret
              /\ config[args.scope]["user.name"] = <<runs[1].ret.username>>
              /\ config[args.scope]["user.email"] = <<runs[1].ret.email>>

\* --------------------------------------------------------------------- C27
\* the two runs are over, both fetched and wrote, each its own identity
BothWrote ==
    /\ top = "twoSetupGitIdentity"
    /\ pc = "idle"
    /\ \A r \in RunIds : runs[r].ret.kind = "info" /\ ~runs[r].dryRun
    /\ runs[1].ret.username # runs[2].ret.username
    /\ runs[1].ret.email # runs[2].ret.email

\* C27: setupGitIdentity takes no lock on the git config store: while one
\* run stands between its write of user.name and its write of user.email,
\* the write of another run for the same scope goes ahead.
C27_NoLock ==
    \A r \in RunIds, o \in RunIds :
        (pc = "tw" /\ runs[o].pc = "email" /\ runs[r].pc = "name") =>
            ENABLED Two_SetName(r)

\* so that a final state is reached in which user.name comes from one run
\* and user.email from the other
C27_Witness ==
    /\ BothWrote
    /\ \A r \in RunIds : \A i \in DOMAIN runs[r].log :
          runs[r].log[i].went = "ok"
    /\ config[args.scope]["user.name"] = <<runs[1].ret.username>>
    /\ config[args.scope]["user.email"] = <<runs[2].ret.email>>

====
